---- MODULE Spec2Model ----
(***************************************************************************)
(* Shared-MCDMA reset coordination of the Xilinx AXI Ethernet add-on       *)
(* (drivers/net/ethernet/xilinx/xilinx_axienet_shared_mcdma.c).            *)
(*                                                                         *)
(* The registry is the intrusive singly linked list  head / lp->next,      *)
(* the counter is axienet_local_count, every instance carries lp->state.   *)
(* Each exported function is one action; the owning driver is the          *)
(* environment and may call any function for any instance at any time.     *)
(***************************************************************************)
EXTENDS Integers, Sequences, FiniteSets, TLC

\* ------------------------------------------------------------------ bounds
MaxCount == 3
NumRxQueues == 2
\* calls begun in one run of the interleaved specification
MaxCalls == 4
\* DMA error interrupts raised by the hardware in one episode
MaxHwErrors == 1
\* process-context calls made during an episode
MaxProcCalls == 1
\* granted resets counted in one episode (the count saturates)
MaxGrants == 2
\* skbs handed to the PTP timestamper
MaxSkbs == 3
\* PTP sequence ids in use
MaxSeqId == 2
\* timer interrupts taken
MaxTicks == 1
\* departure timestamps captured by the PHY
MaxCaptures == 2
MaxLiveCaptures == 1
\* failures injected into one driver call
MaxFaults == 1

\* --------------------------------------------------------------- constants
NULL == "NULL"
\* the struct axienet_local instances of the MACs sharing the MCDMA: three, so
\* that the list has a head, a middle and a tail
MACS == {"eth0", "eth1", "eth2"}
MaxNodes == Cardinality(MACS) + 1
Queues == 1..NumRxQueues

ST_UNLOADED == "UNLOADED"
ST_LOADED == "LOADED"
ST_OPENED == "OPENED"
ST_ERROR == "ERROR"
ST_CLOSED == "CLOSED"
ST_RESET == "RESET"
States == {ST_UNLOADED, ST_LOADED, ST_OPENED, ST_ERROR, ST_CLOSED, ST_RESET}

EVT_MAC_OPEN_COMPLETE == "EVT_MAC_OPEN_COMPLETE"
EVT_DMA_ERROR_RESET_COMPLETE == "EVT_DMA_ERROR_RESET_COMPLETE"
EVT_MAC_CLOSED == "EVT_MAC_CLOSED"
EVT_DMA_ERROR == "EVT_DMA_ERROR"
Events == {EVT_MAC_OPEN_COMPLETE, EVT_DMA_ERROR_RESET_COMPLETE,
           EVT_MAC_CLOSED, EVT_DMA_ERROR}

VARIABLES
    head,                 \* static struct axienet_local *head
    next,                 \* lp->next of every instance
    state,                \* lp->state of every instance
    axienet_local_count,  \* static size_t axienet_local_count
    granted,              \* history: who was granted a reset while LOADED
    reg_order,            \* history: the registrations still in the list
    last,                 \* history: the call that produced this state
    list_lock,            \* static DEFINE_SPINLOCK(list_lock): its holder
    thr,                  \* the call each execution context is in
    dma_err_tasklet,      \* the tasklets scheduled and not yet started
    cs_snap,              \* history: the registry as the lock holder left it
    obs,                  \* history: what the interleaved runs have shown
    tx_skb_queue,         \* priv->tx_skb_queue of the PTP timestamper
    skbs,                 \* every skb: its MV_SKB_CB and what became of it
    hwts_tx_en,           \* priv->hwts_tx_en
    jiffies,              \* the kernel's jiffies
    ticks,                \* history: the timer interrupts taken
    dep_ts,               \* the PHY's departure timestamp registers
    aux,                  \* the PTP aux worker running mv3540_do_aux_work
    tx_args,              \* history: the arguments of the txtstamp call that
                          \* led to this state, if one did
    priv,                 \* priv->hwts_rx_en, ptp_transport, ptp_version,
                          \* ptp_clock
    phy,                  \* the PHY: its PTP mode byte, the read-plus window
                          \* that serves as config lock, phydev->mii_ts
    ptp_clocks,           \* the PTP clock subsystem: clocks registered and
                          \* the unregistrations made
    call,                 \* history: the driver call that led to this state
    of_dev                \* the devices of_phy_notify takes references on

seqvars == <<granted, reg_order, last>>
concvars == <<list_lock, thr, dma_err_tasklet, cs_snap, obs>>
ptpvars == <<tx_skb_queue, skbs, hwts_tx_en, jiffies, ticks, dep_ts, aux,
            tx_args>>
mcdmavars == <<head, next, state, axienet_local_count, granted, reg_order,
               last, list_lock, thr, dma_err_tasklet, cs_snap, obs>>
drvvars == <<priv, phy, ptp_clocks, call, of_dev>>
vars == <<head, next, state, axienet_local_count, granted, reg_order, last,
          list_lock, thr, dma_err_tasklet, cs_snap, obs,
          tx_skb_queue, skbs, hwts_tx_en, jiffies, ticks, dep_ts, aux,
          tx_args, priv, phy, ptp_clocks, call, of_dev>>

\* the execution contexts: process context on CPU 0, and the softirq
\* (tasklet) context of CPU 0 and of CPU 1
Contexts == {"proc", "bh0", "bh1"}
BottomHalves == {"bh0", "bh1"}
IdleThr == [pc |-> "idle", lp |-> NULL, arg |-> "none", h |-> "none", q |-> 0,
            cands |-> {}]
Registry == [head |-> head, next |-> next, state |-> state,
             count |-> axienet_local_count]
NoTasklets == [k \in MACS \X Queues |-> "none"]
NoObs == [calls |-> 0, sr |-> [lp |-> NULL, ret |-> 0, atomic |-> TRUE],
          hw |-> 0, grants |-> 0]

\* ----------------------------------------------------------- list helpers
RECURSIVE ListFrom(_, _, _)
\* the instances met by  for(mac = p; mac != NULL; mac = mac->next),
\* cut after fuel nodes so that a cyclic list shows as a repeated node
ListFrom(p, nxt, fuel) ==
    IF p = NULL \/ fuel = 0 THEN <<>>
    ELSE <<p>> \o ListFrom(nxt[p], nxt, fuel - 1)

Range(s) == {s[k] : k \in 1..Len(s)}
NoDup(s) == \A j, k \in 1..Len(s) : j # k => s[j] # s[k]
Occurrences(s, x) == Cardinality({k \in 1..Len(s) : s[k] = x})

List == ListFrom(head, next, MaxNodes)
InList == Range(List)

axienet_count_macs == axienet_local_count

\* mutant: "loaded = ..." for "loaded &= ...", the last instance decides
all_macs_loaded_assign ==
    IF List = <<>> \/ state[List[Len(List)]] = ST_LOADED THEN 1 ELSE 0

axienet_all_macs_loaded ==
    IF \A k \in 1..Len(List) : state[List[k]] = ST_LOADED THEN 1 ELSE 0

\* ------------------------------------- the PTP timestamper (marvell10g_ptp)
HWTSTAMP_TX_OFF == "HWTSTAMP_TX_OFF"
HWTSTAMP_TX_ON == "HWTSTAMP_TX_ON"
HWTSTAMP_TX_ONESTEP_SYNC == "HWTSTAMP_TX_ONESTEP_SYNC"
HWTSTAMP_TX_ONESTEP_P2P == "HWTSTAMP_TX_ONESTEP_P2P"
TxTypes == {HWTSTAMP_TX_OFF, HWTSTAMP_TX_ON, HWTSTAMP_TX_ONESTEP_SYNC,
            HWTSTAMP_TX_ONESTEP_P2P}

PTP_MSGTYPE_SYNC == 0
PTP_MSGTYPE_DELAY_REQ == 1
PTP_MSGTYPE_PDELAY_REQ == 2
PTP_MSGTYPE_PDELAY_RESP == 3
MsgTypes == {PTP_MSGTYPE_SYNC, PTP_MSGTYPE_DELAY_REQ, PTP_MSGTYPE_PDELAY_REQ,
             PTP_MSGTYPE_PDELAY_RESP}

SKB_TS_TIMEOUT == 10

Skbs == 1..MaxSkbs
SeqIds == 1..MaxSeqId
\* struct sk_buff *ts_skb = NULL
NoSkb == 0

\* an skb the stack has not handed to the timestamper yet
NewSkb == [sent |-> FALSE, timeout |-> 0, seq_id |-> 0, discard |-> FALSE,
           freed |-> 0, completed |-> 0, hwtstamp |-> 0, by |-> "none"]

\* struct mv3540_departure_ts ts = { .found = false }, and the worker at rest
AuxIdle == [pc |-> "idle", pending |-> FALSE, found |-> FALSE, seq_id |-> 0,
            hwtstamp |-> 0, reschedule |-> FALSE, held |-> NoSkb,
            fresh |-> FALSE]

NoTxArgs == [called |-> FALSE, skb |-> NoSkb, parses |-> FALSE,
             msgtype |-> 0, seq |-> 0]

\* no driver call has been made
NoCall == [op |-> "none", ret |-> "0"]

\* the device nodes the OF notifier is told about, and their state before
\* any notification: no node populated, no reference held by the notifier
OfNodes == {"phy0", "phy1"}
OfDevices == {"mdio"} \cup OfNodes
OfIdle ==
    [populated |-> [n \in OfNodes |-> FALSE],
     registered |-> [n \in OfNodes |-> FALSE],
     refs |-> [d \in OfDevices |-> 0]]

\* the private data as mv3540_ptp_probe leaves it when it succeeds, the PHY
\* with PTP mode byte mode
DrvProbed(mode) ==
    /\ priv = [hwts_rx_en |-> 0, ptp_transport |-> {}, ptp_version |-> "0",
               ptp_clock |-> "clock"]
    /\ phy = [mode |-> mode, rdplus_ena |-> FALSE, mii_ts |-> "priv"]
    /\ ptp_clocks = [registered |-> 1, unregistered |-> 0]
    /\ call = NoCall
    /\ of_dev = OfIdle

\* the private data before mv3540_ptp_probe, zeroed by its allocation
DrvUnprobed(mode) ==
    /\ priv = [hwts_rx_en |-> 0, ptp_transport |-> {}, ptp_version |-> "0",
               ptp_clock |-> "NULL"]
    /\ phy = [mode |-> mode, rdplus_ena |-> FALSE, mii_ts |-> "NULL"]
    /\ ptp_clocks = [registered |-> 0, unregistered |-> 0]
    /\ call = NoCall
    /\ of_dev = OfIdle

\* the timestamper with nothing queued, in tx mode tx_en
TimestamperIdle(tx_en) ==
    /\ tx_skb_queue = <<>>
    /\ skbs = [k \in Skbs |-> NewSkb]
    /\ hwts_tx_en = tx_en
    /\ jiffies = 0
    /\ ticks = 0
    /\ dep_ts = [valid |-> FALSE, hwtstamp |-> 0, seq_id |-> 0, n |-> 0]
    /\ aux = AuxIdle
    /\ tx_args = NoTxArgs

\* the timestamper after mv3540_ptp_probe, with tx mode tx_en configured
PtpProbed(tx_en) ==
    /\ TimestamperIdle(tx_en)
    /\ DrvProbed(0)

\* ------------------------------------------------------------------- Init
Init ==
    /\ head = NULL
    /\ next = [m \in MACS |-> NULL]
    /\ state = [m \in MACS |-> ST_UNLOADED]
    /\ axienet_local_count = 0
    /\ granted = {}
    /\ reg_order = <<>>
    /\ last = [op |-> "none", lp |-> NULL, arg |-> "none", ret |-> 0,
               sched |-> <<>>,
               pre |-> [head |-> NULL, next |-> [m \in MACS |-> NULL],
                        state |-> [m \in MACS |-> ST_UNLOADED], count |-> 0]]
    /\ list_lock = NULL
    /\ thr = [c \in Contexts |-> IdleThr]
    /\ dma_err_tasklet = NoTasklets
    /\ cs_snap = [head |-> NULL, next |-> [m \in MACS |-> NULL],
                  state |-> [m \in MACS |-> ST_UNLOADED], count |-> 0]
    /\ obs = NoObs
    /\ PtpProbed(HWTSTAMP_TX_OFF)

\* the record of one call: the function, its arguments, its return value, the
\* tasklet_schedule calls it made (in order) and the registry it was made on
Called(op, lp, arg, ret, sched) ==
    last' = [op |-> op, lp |-> lp, arg |-> arg, ret |-> ret, sched |-> sched,
             pre |-> [head |-> head, next |-> next, state |-> state,
                      count |-> axienet_local_count]]

\* ------------------------------------------------------------- operations
\* the instances granted the reset of an idle set (LOADED branch) that have
\* stayed in LOADED ever since
StillGranted(g, st) == {m \in g : st[m] = ST_LOADED}

\* the successful registrations in order, without the instances that are no
\* longer in the list h / nxt
StillRegistered(seq, h, nxt) ==
    SelectSeq(seq, LAMBDA m : m \in Range(ListFrom(h, nxt, MaxNodes)))

SetRegistry(r) ==
    /\ head' = r.head
    /\ next' = r.next
    /\ state' = r.state
    /\ axienet_local_count' = r.count

\* mutant: the new instance linked in at the head instead of at *tail
mac_add_at_head(lp, nxt) ==
    IF lp \in Range(ListFrom(head, nxt, MaxNodes))
    THEN [head |-> head, next |-> nxt, state |-> state,
          count |-> axienet_local_count, appended |-> FALSE]
    ELSE [head |-> lp, next |-> [nxt EXCEPT ![lp] = head],
          state |-> [state EXCEPT ![lp] = ST_LOADED],
          count |-> axienet_local_count + 1, appended |-> TRUE]

\* mac_add between spin_lock and spin_unlock, on the links nxt: the scan for
\* lp and the append at *tail == NULL
\* mutant: the appended instance keeps its state, lp->state is not assigned
mac_add_keeps_state(lp, nxt) ==
    LET l0 == ListFrom(head, nxt, MaxNodes)
    IN  IF lp \in Range(l0)
        THEN [head |-> head, next |-> nxt, state |-> state,
              count |-> axienet_local_count, appended |-> FALSE]
        ELSE [head |-> IF head = NULL THEN lp ELSE head,
              next |-> IF head = NULL THEN nxt
                       ELSE [nxt EXCEPT ![l0[Len(l0)]] = lp],
              state |-> state,
              count |-> axienet_local_count + 1, appended |-> TRUE]

mac_add_locked(lp, nxt) ==
    LET l0 == ListFrom(head, nxt, MaxNodes)
    IN  IF lp \in Range(l0)
        THEN [head |-> head, next |-> nxt, state |-> state,
              count |-> axienet_local_count, appended |-> FALSE]
        ELSE [head |-> IF head = NULL THEN lp ELSE head,
              next |-> IF head = NULL THEN nxt
                       ELSE [nxt EXCEPT ![l0[Len(l0)]] = lp],
              state |-> [state EXCEPT ![lp] = ST_LOADED],
              count |-> axienet_local_count + 1, appended |-> TRUE]

axienet_shared_mcdma_mac_add(lp) ==
    LET r == mac_add_locked(lp, [next EXCEPT ![lp] = NULL])
    IN  /\ r.count <= MaxCount
        /\ SetRegistry(r)
        /\ granted' = StillGranted(granted, r.state)
        /\ reg_order' = StillRegistered(
               IF r.appended
               THEN Append(SelectSeq(reg_order, LAMBDA m : m # lp), lp)
               ELSE reg_order, r.head, r.next)
        /\ Called("mac_add", lp, "none", 0, <<>>)

\* mutant: the absent case not told from the found one, lp is "removed" anyway
mac_remove_unconditional(lp) ==
    [head |-> IF head = lp THEN next[lp] ELSE head,
     next |-> [m \in MACS |->
                 IF m = lp THEN NULL
                 ELSE IF next[m] = lp /\ m \in InList THEN next[lp]
                 ELSE next[m]],
     state |-> [state EXCEPT ![lp] = ST_UNLOADED],
     count |-> axienet_local_count - 1, removed |-> TRUE]

\* mutant: *tail = NULL for *tail = lp->next, the instances behind lp are lost
mac_remove_drops_rest(lp) ==
    IF lp \in InList
    THEN [head |-> IF head = lp THEN NULL ELSE head,
          next |-> [m \in MACS |->
                      IF m = lp THEN NULL
                      ELSE IF next[m] = lp /\ m \in InList THEN NULL
                      ELSE next[m]],
          state |-> [state EXCEPT ![lp] = ST_UNLOADED],
          count |-> axienet_local_count - 1, removed |-> TRUE]
    ELSE [head |-> head, next |-> next, state |-> state,
          count |-> axienet_local_count, removed |-> FALSE]

\* mac_remove between spin_lock and spin_unlock: the scan for lp and the
\* splice *tail = lp->next
mac_remove_locked(lp) ==
    IF lp \in InList
    THEN [head |-> IF head = lp THEN next[lp] ELSE head,
          next |-> [m \in MACS |->
                      IF m = lp THEN NULL
                      ELSE IF next[m] = lp /\ m \in InList THEN next[lp]
                      ELSE next[m]],
          state |-> [state EXCEPT ![lp] = ST_UNLOADED],
          count |-> axienet_local_count - 1, removed |-> TRUE]
    ELSE [head |-> head, next |-> next, state |-> state,
          count |-> axienet_local_count, removed |-> FALSE]

axienet_shared_mcdma_mac_remove(lp) ==
    LET r == mac_remove_locked(lp)
    IN  /\ r.count >= 0
        /\ SetRegistry(r)
        /\ granted' = StillGranted(granted, r.state)
        /\ reg_order' = StillRegistered(reg_order, r.head, r.next)
        /\ Called("mac_remove", lp, "none", 0, <<>>)

\* mutant: dma-error without the test for ST_RESET
event_state_error_always(event, s) ==
    CASE event = EVT_MAC_OPEN_COMPLETE -> ST_OPENED
      [] event = EVT_DMA_ERROR_RESET_COMPLETE -> ST_OPENED
      [] event = EVT_MAC_CLOSED -> ST_CLOSED
      [] event = EVT_DMA_ERROR -> ST_ERROR

\* mutant: error-reset-complete honoured only by an instance in RESET
event_state_reset_only(event, s) ==
    CASE event = EVT_MAC_OPEN_COMPLETE -> ST_OPENED
      [] event = EVT_DMA_ERROR_RESET_COMPLETE ->
            IF s = ST_RESET THEN ST_OPENED ELSE s
      [] event = EVT_MAC_CLOSED -> ST_CLOSED
      [] event = EVT_DMA_ERROR -> IF s # ST_RESET THEN ST_ERROR ELSE s

\* the state lp->state takes when event is reported
event_state(event, s) ==
    CASE event = EVT_MAC_OPEN_COMPLETE -> ST_OPENED
      [] event = EVT_DMA_ERROR_RESET_COMPLETE -> ST_OPENED
      [] event = EVT_MAC_CLOSED -> ST_CLOSED
      [] event = EVT_DMA_ERROR -> IF s # ST_RESET THEN ST_ERROR ELSE s

axienet_shared_mcdma_event(event, lp) ==
    /\ state' = [state EXCEPT ![lp] = event_state(event, state[lp])]
    /\ UNCHANGED <<head, next, axienet_local_count>>
    /\ granted' = StillGranted(granted, state')
    /\ UNCHANGED reg_order
    /\ Called("event", lp, event, 0, <<>>)

\* for_each_rx_dma_queue(mac, i) tasklet_schedule(&mac->dma_err_tasklet[i])
RECURSIVE schedule_queues(_, _)
schedule_queues(mac, i) ==
    IF i > NumRxQueues THEN <<>>
    ELSE <<(<<mac, i>>)>> \o schedule_queues(mac, i + 1)

\* mutant: case ST_ERROR / ST_CLOSED break without the assignment
reset_other_mac_keeps_error(mac, s) ==
    CASE s \in {ST_UNLOADED, ST_LOADED} -> [state |-> s, sched |-> <<>>]
      [] s = ST_OPENED -> [state |-> ST_RESET, sched |-> schedule_queues(mac, 1)]
      [] s \in {ST_ERROR, ST_CLOSED} -> [state |-> s, sched |-> <<>>]
      [] s = ST_RESET -> [state |-> s, sched |-> <<>>]

\* mutant: case ST_RESET handled like ST_OPENED, its tasklets scheduled again
reset_other_mac_reschedules(mac, s) ==
    CASE s \in {ST_UNLOADED, ST_LOADED} -> [state |-> s, sched |-> <<>>]
      [] s \in {ST_OPENED, ST_RESET} ->
            [state |-> ST_RESET, sched |-> schedule_queues(mac, 1)]
      [] s \in {ST_ERROR, ST_CLOSED} -> [state |-> ST_LOADED, sched |-> <<>>]

\* mutant: case ST_LOADED handled like ST_OPENED
reset_other_mac_resets_loaded(mac, s) ==
    CASE s = ST_UNLOADED -> [state |-> s, sched |-> <<>>]
      [] s \in {ST_LOADED, ST_OPENED} ->
            [state |-> ST_RESET, sched |-> schedule_queues(mac, 1)]
      [] s \in {ST_ERROR, ST_CLOSED} -> [state |-> ST_LOADED, sched |-> <<>>]
      [] s = ST_RESET -> [state |-> s, sched |-> <<>>]

\* the switch of axienet_reset_other_mac: the peer's new state and the
\* tasklet_schedule calls made for it
axienet_reset_other_mac(mac, s) ==
    CASE s \in {ST_UNLOADED, ST_LOADED} -> [state |-> s, sched |-> <<>>]
      [] s = ST_OPENED -> [state |-> ST_RESET, sched |-> schedule_queues(mac, 1)]
      [] s \in {ST_ERROR, ST_CLOSED} -> [state |-> ST_LOADED, sched |-> <<>>]
      [] s = ST_RESET -> [state |-> s, sched |-> <<>>]

RECURSIVE axienet_reset_all_other_macs(_, _, _)
\* for(mac = head; mac != NULL; mac = mac->next) if(mac != lp) ... over the
\* list l, threading the state function st through the calls
axienet_reset_all_other_macs(lp, l, st) ==
    IF l = <<>> THEN [state |-> st, sched |-> <<>>]
    ELSE LET mac == Head(l)
             r == IF mac # lp THEN axienet_reset_other_mac(mac, st[mac])
                  ELSE [state |-> st[mac], sched |-> <<>>]
             rest == axienet_reset_all_other_macs(
                         lp, Tail(l), [st EXCEPT ![mac] = r.state])
         IN  [state |-> rest.state, sched |-> r.sched \o rest.sched]

\* ---- the branches of the switch(lp->state) of should_reset: each yields
\* reset_flg, the states on return and the tasklet_schedule calls made
sr_deny == [ret |-> 0, state |-> state, sched |-> <<>>]

sr_UNLOADED(lp) == sr_deny

sr_LOADED(lp) ==
    IF axienet_all_macs_loaded # 0 THEN [sr_deny EXCEPT !.ret = 1] ELSE sr_deny

sr_ERROR(lp) ==
    LET r == axienet_reset_all_other_macs(lp, List, state)
    IN  [ret |-> 1, state |-> r.state, sched |-> r.sched]

sr_CLOSED(lp) ==
    LET r == axienet_reset_all_other_macs(lp, List, state)
    IN  [ret |-> 1, state |-> r.state, sched |-> r.sched]

\* mutant: case ST_OPENED resets the peers and leaves reset_flg at 0
sr_OPENED_resets_peers(lp) == [sr_ERROR(lp) EXCEPT !.ret = 0]

\* mutant: case ST_OPENED without its break, falling into case ST_ERROR
sr_OPENED_falls_through(lp) == sr_ERROR(lp)

sr_OPENED(lp) == sr_deny

\* mutant: case ST_RESET sets reset_flg
sr_RESET_grants(lp) == [sr_deny EXCEPT !.ret = 1]

sr_RESET(lp) == sr_deny

\* the switch(lp->state) between spin_lock and spin_unlock
sr_switch(lp) ==
    CASE state[lp] = ST_UNLOADED -> sr_UNLOADED(lp)
      [] state[lp] = ST_LOADED -> sr_LOADED(lp)
      [] state[lp] = ST_OPENED -> sr_OPENED(lp)
      [] state[lp] = ST_ERROR -> sr_ERROR(lp)
      [] state[lp] = ST_CLOSED -> sr_CLOSED(lp)
      [] state[lp] = ST_RESET -> sr_RESET(lp)

\* the early return of the single-instance case
sr_single == [ret |-> 1, state |-> state, sched |-> <<>>]

\* the decision of axienet_shared_mcdma_should_reset
should_reset_result(lp) ==
    IF axienet_count_macs < 2 THEN sr_single ELSE sr_switch(lp)

axienet_shared_mcdma_should_reset(lp) ==
    LET r == should_reset_result(lp)
        first == state[lp] = ST_LOADED /\ axienet_count_macs >= 2 /\ r.ret = 1
    IN  /\ state' = r.state
        /\ granted' = StillGranted(IF first THEN granted \cup {lp} ELSE granted,
                                   r.state)
        /\ UNCHANGED <<head, next, axienet_local_count, reg_order>>
        /\ Called("should_reset", lp, "none", r.ret, r.sched)

Next ==
    \/ \E lp \in MACS :
          axienet_shared_mcdma_mac_add(lp) /\ UNCHANGED <<concvars, ptpvars, drvvars>>
    \/ \E lp \in MACS :
          axienet_shared_mcdma_mac_remove(lp) /\ UNCHANGED <<concvars, ptpvars, drvvars>>
    \/ \E lp \in MACS, event \in Events :
          axienet_shared_mcdma_event(event, lp) /\ UNCHANGED <<concvars, ptpvars, drvvars>>
    \/ \E lp \in MACS :
          axienet_shared_mcdma_should_reset(lp) /\ UNCHANGED <<concvars, ptpvars, drvvars>>

Spec == Init /\ [][Next]_vars

\* ------------------------------------------------------------------ claims
\* the registry and the caller's state as they were when the last call began
PreList == ListFrom(last.pre.head, last.pre.next, MaxNodes)
PreIn == Range(PreList)
PreState(m) == last.pre.state[m]
IsShouldReset == last.op = "should_reset"
RegistryUnchanged ==
    /\ head = last.pre.head
    /\ next = last.pre.next
    /\ axienet_local_count = last.pre.count

\* C1: after any sequence of mac_add / mac_remove calls the registry list
\* holds no instance twice and axienet_local_count equals the number of
\* instances reachable from head.
C1_RegistryConsistent ==
    /\ NoDup(List)
    /\ axienet_local_count = Len(List)

\* C2: registering an instance that is already in the registry changes
\* nothing: head, every next link, every state and the counter are as before,
\* whatever the instance's position in the list.
C2_ReAddIsNoOp ==
    (last.op = "mac_add" /\ last.lp \in PreIn) =>
        (RegistryUnchanged /\ state = last.pre.state)

\* C3: with two or more registered instances, once should_reset has returned
\* true to an instance A in LOADED, a should_reset call by another instance B
\* is not granted through the LOADED branch while A remains in LOADED.
C3_SingleFirstOpener ==
    ~ ( /\ IsShouldReset
        /\ last.ret = 1
        /\ Len(PreList) >= 2
        /\ last.lp \in PreIn
        /\ PreState(last.lp) = ST_LOADED
        /\ \E A \in granted \cap PreIn : A # last.lp )

\* C4: when exactly one instance is registered, should_reset called by that
\* instance returns true whatever its state, changes no state and schedules
\* no recovery handler.
C4_SingleInstanceGranted ==
    (IsShouldReset /\ PreList = <<last.lp>>) =>
        (last.ret = 1 /\ state = last.pre.state /\ last.sched = <<>>)

\* C5 (as stated): a should_reset call made by a registered instance whose
\* state is OPENED returns false.
C5_OpenedDenied ==
    (IsShouldReset /\ last.lp \in PreIn /\ PreState(last.lp) = ST_OPENED) =>
        last.ret = 0

\* C5 (amended): a should_reset call made by an instance whose state is OPENED
\* returns false exactly when the counter is at least 2; with a counter below
\* 2 it returns true.
C5_OpenedDeniedWhenShared ==
    (IsShouldReset /\ PreState(last.lp) = ST_OPENED) =>
        (last.ret = 0 <=> last.pre.count >= 2)

C5_Witness ==
    /\ IsShouldReset
    /\ last.lp \in PreIn
    /\ Len(PreList) >= 2
    /\ PreState(last.lp) = ST_OPENED
    /\ last.ret = 0

\* C6 (as stated): a should_reset call made by a registered instance whose
\* state is RESET returns false, also after the peer that forced the reset
\* has been unregistered.
C6_ResetDenied ==
    (IsShouldReset /\ last.lp \in PreIn /\ PreState(last.lp) = ST_RESET) =>
        last.ret = 0

\* C6 (amended): a should_reset call made by an instance whose state is RESET
\* returns false exactly when the counter is at least 2; with a counter below
\* 2 (the forcing peer unregistered) it returns true.
C6_ResetDeniedWhenShared ==
    (IsShouldReset /\ PreState(last.lp) = ST_RESET) =>
        (last.ret = 0 <=> last.pre.count >= 2)

C6_Witness ==
    /\ IsShouldReset
    /\ last.lp \in PreIn
    /\ Len(PreList) >= 2
    /\ PreState(last.lp) = ST_RESET
    /\ last.ret = 0

C8_LoadedGrantedIffAllLoaded ==
    (IsShouldReset /\ Len(PreList) >= 2 /\ PreState(last.lp) = ST_LOADED) =>
        (last.ret = 1 <=> \A m \in PreIn : PreState(m) = ST_LOADED)

C8_Witness ==
    /\ IsShouldReset
    /\ Len(PreList) = Cardinality(MACS)
    /\ PreState(last.lp) = ST_LOADED
    /\ PreState(PreList[1]) = ST_LOADED
    /\ \E m \in PreIn : PreState(m) = ST_OPENED
    /\ last.ret = 0

C10_EventSetsOwnState ==
    (last.op = "event" /\ last.arg # EVT_DMA_ERROR) =>
        /\ state[last.lp] = IF last.arg = EVT_MAC_CLOSED THEN ST_CLOSED
                            ELSE ST_OPENED
        /\ \A m \in MACS \ {last.lp} : state[m] = PreState(m)
        /\ RegistryUnchanged

C10_Witness ==
    /\ last.op = "event"
    /\ last.arg = EVT_DMA_ERROR_RESET_COMPLETE
    /\ PreState(last.lp) = ST_ERROR
    /\ state[last.lp] = ST_OPENED
    /\ last.lp \in InList
    /\ Len(List) >= 2

\* C11: a dma-error event reported by an instance in RESET leaves its state
\* at RESET; reported in any other state it sets the state to ERROR.
C11_DmaErrorIgnoredInReset ==
    (last.op = "event" /\ last.arg = EVT_DMA_ERROR) =>
        state[last.lp] = IF PreState(last.lp) = ST_RESET THEN ST_RESET
                         ELSE ST_ERROR

C11_Witness ==
    /\ last.op = "event"
    /\ last.arg = EVT_DMA_ERROR
    /\ last.lp \in PreIn
    /\ PreState(last.lp) = ST_RESET
    /\ state[last.lp] = ST_RESET
    /\ \E m \in PreIn : PreState(m) = ST_ERROR

\* C12: should_reset called for an instance that is not in the registry
\* returns false and changes no registered instance's state, whatever the
\* registry holds and whatever state the absent instance has.
C12_AbsentCallerDenied ==
    (IsShouldReset /\ last.lp \notin PreIn) =>
        /\ last.ret = 0
        /\ \A m \in PreIn : state[m] = PreState(m)

\* C13: unregistering an instance that is not in the registry changes
\* nothing: head, every next link, the counter and every state (the absent
\* instance's included) are as before.
C13_RemoveAbsentIsNoOp ==
    (last.op = "mac_remove" /\ last.lp \notin PreIn) =>
        (RegistryUnchanged /\ state = last.pre.state)

C13_Witness ==
    /\ last.op = "mac_remove"
    /\ last.lp \notin PreIn
    /\ PreState(last.lp) = ST_ERROR
    /\ Len(PreList) >= 2
    /\ state[last.lp] = ST_ERROR

\* C14: unregistering a registered instance removes exactly that instance
\* from the list, clears its next link, sets its state to UNLOADED and
\* decrements the counter by one; the other instances keep their relative
\* order and their states.
C14_RemoveSplicesOne ==
    (last.op = "mac_remove" /\ last.lp \in PreIn) =>
        /\ List = SelectSeq(PreList, LAMBDA m : m # last.lp)
        /\ next[last.lp] = NULL
        /\ state[last.lp] = ST_UNLOADED
        /\ axienet_local_count = last.pre.count - 1
        /\ \A m \in MACS \ {last.lp} : state[m] = PreState(m)

C14_Witness ==
    /\ last.op = "mac_remove"
    /\ Len(PreList) = 3
    /\ last.lp = PreList[2]
    /\ List = <<PreList[1], PreList[3]>>
    /\ state[last.lp] = ST_UNLOADED

\* C15: registering an instance that is not in the registry appends it at
\* the tail, sets its state to LOADED whatever its previous state and
\* increments the counter by one; the list order always equals the order of
\* the successful registrations of the instances still in the registry.
C15_AddAppendsAtTail ==
    /\ (last.op = "mac_add" /\ last.lp \notin PreIn) =>
          /\ List = Append(PreList, last.lp)
          /\ state[last.lp] = ST_LOADED
          /\ axienet_local_count = last.pre.count + 1
          /\ \A m \in MACS \ {last.lp} : state[m] = PreState(m)
    /\ List = reg_order

C15_Witness ==
    /\ last.op = "mac_add"
    /\ last.lp \notin PreIn
    /\ PreState(last.lp) = ST_CLOSED
    /\ Len(PreList) = 2
    /\ List = Append(PreList, last.lp)
    /\ state[last.lp] = ST_LOADED

C22_DeniedChangesNothing ==
    (IsShouldReset /\ last.ret = 0) =>
        /\ state = last.pre.state
        /\ RegistryUnchanged
        /\ last.sched = <<>>

C22_Witness ==
    /\ IsShouldReset
    /\ last.ret = 0
    /\ PreState(last.lp) = ST_OPENED
    /\ \E m \in PreIn \ {last.lp} : PreState(m) = ST_OPENED
    /\ state = last.pre.state

\* C23: no instance in the registry list is in state UNLOADED.
C23_ListedNotUnloaded == \A m \in InList : state[m] # ST_UNLOADED

C23_Witness ==
    /\ last.op = "mac_remove"
    /\ last.lp \in PreIn
    /\ Len(PreList) = 3
    /\ state[last.lp] = ST_UNLOADED
    /\ last.lp \notin InList

\* C24: an event reported for an instance outside the registry changes no
\* state; an unregistered instance stays UNLOADED.
C24_EventForAbsentIsNoOp ==
    (last.op = "event" /\ last.lp \notin PreIn) => state = last.pre.state

\* ---- the same four functions run by interleaved execution contexts, one
\* step per lock operation

LockPcs == {"add_lock", "rm_lock", "ev_lock", "sr_lock"}

CsPc(pc) ==
    CASE pc = "add_lock" -> "add_cs"
      [] pc = "rm_lock" -> "rm_cs"
      [] pc = "ev_lock" -> "ev_cs"
      [] pc = "sr_lock" -> "sr_cs"

\* spin_lock leaves softirqs enabled: a tasklet that starts on CPU 0 runs to
\* its end before the interrupted process context resumes
Runnable(c) == c = "proc" => thr["bh0"].pc = "idle"

\* the softirq context that runs the tasklets context c schedules
Cpu(c) == IF c = "bh1" THEN "bh1" ELSE "bh0"

\* tasklet_schedule of every tasklet in seq, by context c: a tasklet already
\* scheduled stays where it is
Sched(t, seq, c) ==
    [k \in MACS \X Queues |->
        IF k \in Range(seq) /\ t[k] = "none" THEN Cpu(c) ELSE t[k]]

\* what a should_reset result is to its caller and to the peers
Effects(r) ==
    [ret |-> r.ret, sched |-> r.sched,
     chg |-> {<<m, state[m], r.state[m]>> :
                 m \in {x \in MACS : r.state[x] # state[x]}}]

\* the arbitration algorithm applied atomically to the present state
AtomicOutcome(lp) == Effects(should_reset_result(lp))

\* every should_reset in flight notes what the atomic algorithm yields now
Observe(t) ==
    [d \in Contexts |->
        IF t[d].pc \in {"sr_lock", "sr_cs"}
        THEN [t[d] EXCEPT !.cands = @ \cup {AtomicOutcome(t[d].lp)}]
        ELSE t[d]]

\* context c enters a call and stands before its spin_lock
Enter(c, pc, lp, arg) ==
    thr' = [Observe(thr) EXCEPT ![c] =
               [pc |-> pc, lp |-> lp, arg |-> arg, h |-> thr[c].h,
                q |-> thr[c].q, cands |-> {}]]

\* context c returns from a call: a recovery handler goes on to its next
\* call, any other caller is done
Leave(c) ==
    thr' = [Observe(thr) EXCEPT ![c] =
               IF thr[c].h = "err"
               THEN [IdleThr EXCEPT !.pc = "h_sr", !.lp = thr[c].lp,
                                    !.h = "sr", !.q = thr[c].q]
               ELSE IF thr[c].h = "sr"
               THEN [IdleThr EXCEPT !.pc = "h_done", !.lp = thr[c].lp,
                                    !.h = "done", !.q = thr[c].q]
               ELSE IdleThr]

ObsCall(c) == IF thr[c].h = "none" THEN [obs EXCEPT !.calls = @ + 1] ELSE obs

ObsReturn(o, c, ret, atomic) ==
    [o EXCEPT !.sr = [lp |-> thr[c].lp, ret |-> ret, atomic |-> atomic],
              !.grants = IF thr[c].h # "none" /\ ret = 1 /\ @ < MaxGrants
                         THEN @ + 1 ELSE @]

\* mac_add up to its spin_lock: lp->next = NULL is written first
mac_add_begin(c, lp) ==
    /\ next' = [next EXCEPT ![lp] = NULL]
    /\ Enter(c, "add_lock", lp, "none")
    /\ obs' = ObsCall(c)
    /\ UNCHANGED <<head, state, axienet_local_count, list_lock,
                   dma_err_tasklet, cs_snap, seqvars, ptpvars, drvvars>>

mac_remove_begin(c, lp) ==
    /\ Enter(c, "rm_lock", lp, "none")
    /\ obs' = ObsCall(c)
    /\ UNCHANGED <<head, next, state, axienet_local_count, list_lock,
                   dma_err_tasklet, cs_snap, seqvars, ptpvars, drvvars>>

event_begin(c, event, lp) ==
    /\ Enter(c, "ev_lock", lp, event)
    /\ obs' = ObsCall(c)
    /\ UNCHANGED <<head, next, state, axienet_local_count, list_lock,
                   dma_err_tasklet, cs_snap, seqvars, ptpvars, drvvars>>

\* should_reset up to its spin_lock: the counter is read before the lock is
\* taken, and fewer than two instances returns 1 at once
should_reset_begin(c, lp) ==
    /\ IF axienet_count_macs < 2
       THEN /\ Leave(c)
            /\ obs' = ObsReturn(ObsCall(c), c, 1, TRUE)
       ELSE /\ thr' = [Observe(thr) EXCEPT ![c] =
                          [pc |-> "sr_lock", lp |-> lp, arg |-> "none",
                           h |-> thr[c].h, q |-> thr[c].q,
                           cands |-> {AtomicOutcome(lp)}]]
            /\ obs' = ObsCall(c)
    /\ UNCHANGED <<head, next, state, axienet_local_count, list_lock,
                   dma_err_tasklet, cs_snap, seqvars, ptpvars, drvvars>>

\* spin_lock(&list_lock) succeeds
spin_lock(c) ==
    /\ thr[c].pc \in LockPcs
    /\ Runnable(c)
    /\ list_lock = NULL
    /\ list_lock' = c
    /\ thr' = [Observe(thr) EXCEPT ![c].pc = CsPc(thr[c].pc)]
    /\ UNCHANGED <<head, next, state, axienet_local_count, dma_err_tasklet,
                   cs_snap, obs, seqvars, ptpvars, drvvars>>

\* the critical section of mac_add and its spin_unlock
mac_add_body(c) ==
    /\ thr[c].pc = "add_cs"
    /\ Runnable(c)
    /\ LET r == mac_add_locked(thr[c].lp, next)
       IN  /\ SetRegistry(r)
           /\ cs_snap' = [head |-> r.head, next |-> r.next,
                          state |-> r.state, count |-> r.count]
    /\ list_lock' = NULL
    /\ Leave(c)
    /\ UNCHANGED <<dma_err_tasklet, obs, seqvars, ptpvars, drvvars>>

\* the critical section of mac_remove and its spin_unlock
mac_remove_body(c) ==
    /\ thr[c].pc = "rm_cs"
    /\ Runnable(c)
    /\ LET r == mac_remove_locked(thr[c].lp)
       IN  /\ SetRegistry(r)
           /\ cs_snap' = [head |-> r.head, next |-> r.next,
                          state |-> r.state, count |-> r.count]
    /\ list_lock' = NULL
    /\ Leave(c)
    /\ UNCHANGED <<dma_err_tasklet, obs, seqvars, ptpvars, drvvars>>

\* the critical section of event and its spin_unlock
event_body(c) ==
    /\ thr[c].pc = "ev_cs"
    /\ Runnable(c)
    /\ state' = [state EXCEPT
                    ![thr[c].lp] = event_state(thr[c].arg, state[thr[c].lp])]
    /\ cs_snap' = [Registry EXCEPT !.state = state']
    /\ list_lock' = NULL
    /\ Leave(c)
    /\ UNCHANGED <<head, next, axienet_local_count, dma_err_tasklet, obs,
                   seqvars, ptpvars, drvvars>>

\* the critical section of should_reset and its spin_unlock
should_reset_body(c) ==
    /\ thr[c].pc = "sr_cs"
    /\ Runnable(c)
    /\ LET r == sr_switch(thr[c].lp)
       IN  /\ state' = r.state
           /\ dma_err_tasklet' = Sched(dma_err_tasklet, r.sched, c)
           /\ cs_snap' = [Registry EXCEPT !.state = r.state]
           /\ obs' = ObsReturn(obs, c, r.ret,
                               Effects(r) \in Observe(thr)[c].cands)
    /\ list_lock' = NULL
    /\ Leave(c)
    /\ UNCHANGED <<head, next, axienet_local_count, seqvars, ptpvars, drvvars>>

\* a caller that is not inside a call may start one
MayCall(c) == thr[c].pc = "idle" /\ Runnable(c) /\ obs.calls < MaxCalls

NextConc ==
    \/ \E lp \in MACS :
          /\ MayCall("proc")
          /\ axienet_local_count < MaxCount
          /\ mac_add_begin("proc", lp)
    \/ \E lp \in MACS : MayCall("proc") /\ mac_remove_begin("proc", lp)
    \/ \E c \in Contexts, lp \in MACS, event \in Events :
          MayCall(c) /\ event_begin(c, event, lp)
    \/ \E c \in Contexts, lp \in MACS :
          MayCall(c) /\ should_reset_begin(c, lp)
    \/ \E c \in Contexts : spin_lock(c)
    \/ \E c \in Contexts : mac_add_body(c)
    \/ \E c \in Contexts : mac_remove_body(c)
    \/ \E c \in Contexts : event_body(c)
    \/ \E c \in Contexts : should_reset_body(c)

SpecConc == Init /\ [][NextConc]_vars

\* C16: every should_reset call's result and peer side effects are those the
\* arbitration algorithm yields when applied atomically at one instant
\* between the call's start and its return.
C16_DecisionOnOneSnapshot == obs.sr.atomic

\* C17: the list head, the next links, the states and the counter are
\* written only inside a critical section of list_lock: the registry is
\* always as the last lock holder left it.
C17_WritesUnderLock == Registry = cs_snap

\* C18: no bottom-half caller waits for list_lock while the process context
\* it interrupted on its own CPU holds it.
C18_NoSelfDeadlock ==
    ~(list_lock = "proc" /\ thr["bh0"].pc \in LockPcs)

\* ---- one DMA-error episode: the recovery tasklets of two opened instances

InitEpisode ==
    /\ head = "eth0"
    /\ next = [m \in MACS |-> IF m = "eth0" THEN "eth1" ELSE NULL]
    /\ state = [m \in MACS |->
                   IF m \in {"eth0", "eth1"} THEN ST_OPENED ELSE ST_UNLOADED]
    /\ axienet_local_count = 2
    /\ granted = {}
    /\ reg_order = <<"eth0", "eth1">>
    /\ last = [op |-> "none", lp |-> NULL, arg |-> "none", ret |-> 0,
               sched |-> <<>>,
               pre |-> [head |-> NULL, next |-> [m \in MACS |-> NULL],
                        state |-> [m \in MACS |-> ST_UNLOADED], count |-> 0]]
    /\ list_lock = NULL
    /\ thr = [c \in Contexts |-> IdleThr]
    /\ dma_err_tasklet = NoTasklets
    /\ cs_snap = Registry
    /\ obs = NoObs
    /\ PtpProbed(HWTSTAMP_TX_OFF)

\* the DMA error interrupt of queue i of instance m, taken on the CPU of c:
\* it schedules the queue's recovery tasklet
dma_err_irq(c, m, i) ==
    /\ obs.hw < MaxHwErrors
    /\ m \in InList
    /\ state[m] = ST_OPENED
    /\ dma_err_tasklet[<<m, i>>] = "none"
    /\ dma_err_tasklet' = [dma_err_tasklet EXCEPT ![<<m, i>>] = c]
    /\ obs' = [obs EXCEPT !.hw = @ + 1]
    /\ thr' = Observe(thr)
    /\ UNCHANGED <<head, next, state, axienet_local_count, list_lock, cs_snap,
                   seqvars, ptpvars, drvvars>>

\* the recovery tasklet of queue i of instance m starts in softirq context c
\* and reports dma-error; one tasklet never runs in two contexts at once
dma_err_handler(c, m, i) ==
    /\ thr[c].pc = "idle"
    /\ dma_err_tasklet[<<m, i>>] = c
    /\ \A d \in Contexts :
          ~(thr[d].h # "none" /\ thr[d].lp = m /\ thr[d].q = i)
    /\ dma_err_tasklet' = [dma_err_tasklet EXCEPT ![<<m, i>>] = "none"]
    /\ thr' = [Observe(thr) EXCEPT ![c] =
                  [pc |-> "ev_lock", lp |-> m, arg |-> EVT_DMA_ERROR,
                   h |-> "err", q |-> i, cands |-> {}]]
    /\ UNCHANGED <<head, next, state, axienet_local_count, list_lock, cs_snap,
                   obs, seqvars, ptpvars, drvvars>>

\* the handler asks the arbiter
dma_err_handler_should_reset(c) ==
    /\ thr[c].pc = "h_sr"
    /\ should_reset_begin(c, thr[c].lp)

\* the handler reports error-reset-complete
dma_err_handler_complete(c) ==
    /\ thr[c].pc = "h_done"
    /\ event_begin(c, EVT_DMA_ERROR_RESET_COMPLETE, thr[c].lp)

\* a registered interface is closed from process context
ndo_stop(lp) ==
    /\ thr["proc"].pc = "idle"
    /\ Runnable("proc")
    /\ obs.calls < MaxProcCalls
    /\ lp \in InList
    /\ event_begin("proc", EVT_MAC_CLOSED, lp)

NextEpisode ==
    \/ \E c \in BottomHalves, m \in MACS, i \in Queues : dma_err_irq(c, m, i)
    \/ \E c \in BottomHalves, m \in MACS, i \in Queues :
          dma_err_handler(c, m, i)
    \/ \E c \in BottomHalves : dma_err_handler_should_reset(c)
    \/ \E c \in BottomHalves : dma_err_handler_complete(c)
    \/ \E lp \in MACS : ndo_stop(lp)
    \/ \E c \in Contexts : spin_lock(c)
    \/ \E c \in Contexts : event_body(c)
    \/ \E c \in Contexts : should_reset_body(c)

\* a scheduled tasklet is run, a running context goes on, and a spinning
\* context gets the lock if it is free again and again
FairEpisode ==
    /\ \A c \in BottomHalves, m \in MACS, i \in Queues :
          SF_vars(dma_err_handler(c, m, i))
    /\ \A c \in BottomHalves :
          /\ WF_vars(dma_err_handler_should_reset(c))
          /\ WF_vars(dma_err_handler_complete(c))
    /\ \A c \in Contexts :
          /\ SF_vars(spin_lock(c))
          /\ WF_vars(event_body(c))
          /\ WF_vars(should_reset_body(c))

SpecEpisode == InitEpisode /\ [][NextEpisode]_vars /\ FairEpisode

\* C19: with no call from process context, the handlers of one DMA-error
\* episode are granted at most one reset between them.
C19_OneGrantPerEpisode == obs.calls = 0 => obs.grants <= 1

\* C20: an instance in RESET does not stay in RESET forever.
C20_ResetIsLeft ==
    \A m \in MACS : (state[m] = ST_RESET) ~> (state[m] # ST_RESET)

\* ---- the episode with no call from process context: only the hardware
\* error and the recovery handlers act

NextRecovery ==
    \/ \E c \in BottomHalves, m \in MACS, i \in Queues : dma_err_irq(c, m, i)
    \/ \E c \in BottomHalves, m \in MACS, i \in Queues :
          dma_err_handler(c, m, i)
    \/ \E c \in BottomHalves : dma_err_handler_should_reset(c)
    \/ \E c \in BottomHalves : dma_err_handler_complete(c)
    \/ \E c \in Contexts : spin_lock(c)
    \/ \E c \in Contexts : event_body(c)
    \/ \E c \in Contexts : should_reset_body(c)

SpecRecovery == InitEpisode /\ [][NextRecovery]_vars /\ FairEpisode

\* every registered instance is OPENED, no tasklet is scheduled and no
\* handler is running
Quiescent ==
    /\ \A m \in InList : state[m] = ST_OPENED
    /\ \A k \in MACS \X Queues : dma_err_tasklet[k] = "none"
    /\ \A c \in Contexts : thr[c].pc = "idle"

\* C25: after one DMA error and no call from process context the system
\* comes to rest: from some point on every registered instance is OPENED, no
\* recovery handler is scheduled or running, and so no reset is granted any
\* more.
C25_Quiesces == <>[]Quiescent

\* ---- the PTP timestamper: mv3540_txtstamp fills tx_skb_queue, the aux
\* worker matches the queue against the PHY's departure timestamps

\* be16_to_cpu(hdr->sequence_id), the header bytes in wire order
be16_to_cpu(b) == b[1] * 256 + b[2]

\* mutant: time_after_eq, true as soon as the timeout is reached
time_after_or_at(a, b) == a >= b

\* time_after(a, b): jiffies do not wrap within MaxTicks timer interrupts
time_after(a, b) == a > b

\* case HWTSTAMP_TX_ONESTEP_P2P, up to its fallthrough
case_ONESTEP_P2P(msgtype, discard) ==
    IF msgtype = PTP_MSGTYPE_PDELAY_RESP THEN TRUE ELSE discard

\* mutant: case HWTSTAMP_TX_ONESTEP_SYNC leaves discard alone
case_ONESTEP_SYNC_unmarked(msgtype, discard) == discard

\* case HWTSTAMP_TX_ONESTEP_SYNC, up to its fallthrough
case_ONESTEP_SYNC(msgtype, discard) ==
    IF msgtype = PTP_MSGTYPE_SYNC THEN TRUE ELSE discard

\* mutant: case HWTSTAMP_TX_ON breaks instead of queueing
txtstamp_switch_on_breaks(tx_en, msgtype) ==
    CASE tx_en = HWTSTAMP_TX_ONESTEP_P2P ->
            [queue |-> TRUE,
             discard |-> case_ONESTEP_SYNC(msgtype,
                             case_ONESTEP_P2P(msgtype, FALSE))]
      [] tx_en = HWTSTAMP_TX_ONESTEP_SYNC ->
            [queue |-> TRUE, discard |-> case_ONESTEP_SYNC(msgtype, FALSE)]
      [] OTHER -> [queue |-> FALSE, discard |-> FALSE]

\* switch (priv->hwts_tx_en) of mv3540_txtstamp: whether the skb is queued,
\* and the discard mark it is queued with
txtstamp_switch(tx_en, msgtype) ==
    CASE tx_en = HWTSTAMP_TX_ONESTEP_P2P ->
            [queue |-> TRUE,
             discard |-> case_ONESTEP_SYNC(msgtype,
                             case_ONESTEP_P2P(msgtype, FALSE))]
      [] tx_en = HWTSTAMP_TX_ONESTEP_SYNC ->
            [queue |-> TRUE, discard |-> case_ONESTEP_SYNC(msgtype, FALSE)]
      [] tx_en = HWTSTAMP_TX_ON -> [queue |-> TRUE, discard |-> FALSE]
      [] OTHER -> [queue |-> FALSE, discard |-> FALSE]

\* kfree_skb(skb) at the call site by: the skb and its control block are gone
kfree_skb(sk, k, by) ==
    [sk EXCEPT ![k].freed = @ + 1, ![k].by = by, ![k].timeout = 0,
               ![k].seq_id = 0, ![k].discard = FALSE]

\* skb_complete_tx_timestamp(skb, &hwts): the skb goes back to the stack
\* with the timestamp
skb_complete_tx_timestamp(sk, k, hwtstamp) ==
    [sk EXCEPT ![k].completed = @ + 1, ![k].hwtstamp = hwtstamp,
               ![k].by = "match", ![k].timeout = 0, ![k].seq_id = 0,
               ![k].discard = FALSE]

\* the skb the stack hands over next
NextSkb ==
    CHOOSE x \in Skbs : ~skbs[x].sent /\ \A y \in Skbs : ~skbs[y].sent => x <= y

\* the stack hands its next skb to the timestamper; hdr is what
\* ptp_parse_header returns: no header (found is FALSE), or the header with
\* its message type and the bytes of its sequence_id field
mv3540_txtstamp(hdr) ==
    /\ \E k \in Skbs : ~skbs[k].sent
    /\ LET k == NextSkb
           r == IF hdr.found THEN txtstamp_switch(hwts_tx_en, hdr.msgtype)
                ELSE [queue |-> FALSE, discard |-> FALSE]
       IN  IF r.queue
           THEN /\ skbs' = [skbs EXCEPT
                               ![k].sent = TRUE,
                               ![k].timeout = jiffies + SKB_TS_TIMEOUT,
                               ![k].seq_id = be16_to_cpu(hdr.sequence_id),
                               ![k].discard = r.discard]
                /\ tx_skb_queue' = Append(tx_skb_queue, k)
                /\ aux' = [aux EXCEPT !.pending = TRUE]
           ELSE /\ skbs' = kfree_skb([skbs EXCEPT ![k].sent = TRUE], k,
                                     "txtstamp")
                /\ UNCHANGED <<tx_skb_queue, aux>>
    /\ tx_args' = IF ~hdr.found
                  THEN [NoTxArgs EXCEPT !.called = TRUE, !.skb = NextSkb]
                  ELSE [called |-> TRUE, skb |-> NextSkb, parses |-> TRUE,
                        msgtype |-> hdr.msgtype,
                        seq |-> be16_to_cpu(hdr.sequence_id)]
    /\ UNCHANGED <<hwts_tx_en, jiffies, ticks, dep_ts, mcdmavars, drvvars>>

\* the timer interrupt: jiffies advance by d
timer_tick(d) ==
    /\ ticks < MaxTicks
    /\ ticks' = ticks + 1
    /\ jiffies' = jiffies + d
    /\ tx_args' = NoTxArgs
    /\ UNCHANGED <<tx_skb_queue, skbs, hwts_tx_en, dep_ts, aux, mcdmavars, drvvars>>

\* the PHY captures the departure time of a frame with sequence id s
phy_departure(s) ==
    /\ dep_ts.n < MaxCaptures
    /\ dep_ts' = [valid |-> TRUE, hwtstamp |-> dep_ts.n + 1, seq_id |-> s,
                  n |-> dep_ts.n + 1]
    /\ tx_args' = NoTxArgs
    /\ UNCHANGED <<tx_skb_queue, skbs, hwts_tx_en, jiffies, ticks, aux,
                   mcdmavars, drvvars>>

\* the ptp kworker calls mv3540_do_aux_work
do_aux_work_start ==
    /\ aux.pc = "idle"
    /\ aux.pending
    /\ aux' = [AuxIdle EXCEPT !.pc = "loop"]
    /\ tx_args' = NoTxArgs
    /\ UNCHANGED <<tx_skb_queue, skbs, hwts_tx_en, jiffies, ticks, dep_ts,
                   mcdmavars, drvvars>>

\* while (!skb_queue_empty_lockless(&priv->tx_skb_queue) && !reschedule),
\* and return reschedule ? 1 : -1 when the loop ends
do_aux_work_loop ==
    /\ aux.pc = "loop"
    /\ aux' = IF tx_skb_queue # <<>> /\ ~aux.reschedule
              THEN [aux EXCEPT !.pc = "read"]
              ELSE [AuxIdle EXCEPT !.pending = aux.pending \/ aux.reschedule]
    /\ tx_args' = NoTxArgs
    /\ UNCHANGED <<tx_skb_queue, skbs, hwts_tx_en, jiffies, ticks, dep_ts,
                   mcdmavars, drvvars>>

\* mv3540_read_departure_ts: the registers are read and the valid bit is
\* cleared; ts is written only when the valid bit was set
mv3540_read_departure_ts ==
    /\ aux.pc = "read"
    /\ aux' = IF dep_ts.valid
              THEN [aux EXCEPT !.pc = "match", !.found = TRUE,
                               !.seq_id = dep_ts.seq_id,
                               !.hwtstamp = dep_ts.hwtstamp, !.fresh = TRUE]
              ELSE [aux EXCEPT !.pc = "match", !.reschedule = TRUE,
                               !.fresh = FALSE]
    /\ dep_ts' = [dep_ts EXCEPT !.valid = FALSE]
    /\ tx_args' = NoTxArgs
    /\ UNCHANGED <<tx_skb_queue, skbs, hwts_tx_en, jiffies, ticks, mcdmavars, drvvars>>

RECURSIVE skb_queue_walk_last(_, _, _, _)
\* mutant: the walk keeps going after a match and ends on the last one
skb_queue_walk_last(q, sk, s, i) ==
    IF i > Len(q) THEN 0
    ELSE LET rest == skb_queue_walk_last(q, sk, s, i + 1)
         IN  IF rest # 0 THEN rest
             ELSE IF sk[q[i]].seq_id = s THEN i ELSE 0

RECURSIVE skb_queue_walk(_, _, _, _)
\* skb_queue_walk from position i: where the first skb with seq_id s is,
\* 0 when the walk ends without a match
skb_queue_walk(q, sk, s, i) ==
    IF i > Len(q) THEN 0
    ELSE IF sk[q[i]].seq_id = s THEN i
    ELSE skb_queue_walk(q, sk, s, i + 1)

\* __skb_unlink of the skb at position i
skb_unlink(q, i) == SubSeq(q, 1, i - 1) \o SubSeq(q, i + 1, Len(q))

\* if (ts_skb) { if (MV_SKB_CB(ts_skb)->discard) kfree_skb else complete }
deliver(sk, k, hwtstamp) ==
    IF sk[k].discard THEN kfree_skb(sk, k, "discard")
    ELSE skb_complete_tx_timestamp(sk, k, hwtstamp)

\* mutant: the expiry loop is never entered
after_match_never_expires(first) == "loop"

\* if (!first) of mv3540_ptp_match_tstamp: where the worker goes on
after_match(first) == IF first THEN "loop" ELSE "expire"

\* the position the walk of mv3540_ptp_match_tstamp stops at
MatchPos ==
    IF aux.found THEN skb_queue_walk(tx_skb_queue, skbs, aux.seq_id, 1) ELSE 0

\* mv3540_ptp_match_tstamp up to its expiry loop: the walk under the queue
\* lock, then the matched skb is freed or completed
mv3540_ptp_match_tstamp ==
    /\ aux.pc = "match"
    /\ LET i == MatchPos
       IN  /\ tx_skb_queue' = IF i = 0 THEN tx_skb_queue
                              ELSE skb_unlink(tx_skb_queue, i)
           /\ skbs' = IF i = 0 THEN skbs
                      ELSE deliver(skbs, tx_skb_queue[i], aux.hwtstamp)
           /\ aux' = [aux EXCEPT !.pc = after_match(i = 1)]
    /\ tx_args' = NoTxArgs
    /\ UNCHANGED <<hwts_tx_en, jiffies, ticks, dep_ts, mcdmavars, drvvars>>

\* skb = skb_dequeue(&priv->tx_skb_queue) of the expiry loop
expire_dequeue ==
    /\ aux.pc = "expire"
    /\ IF tx_skb_queue = <<>>
       THEN /\ aux' = [aux EXCEPT !.pc = "loop"]
            /\ UNCHANGED tx_skb_queue
       ELSE /\ aux' = [aux EXCEPT !.pc = "expire_chk",
                                  !.held = Head(tx_skb_queue)]
            /\ tx_skb_queue' = Tail(tx_skb_queue)
    /\ tx_args' = NoTxArgs
    /\ UNCHANGED <<skbs, hwts_tx_en, jiffies, ticks, dep_ts, mcdmavars, drvvars>>

\* the body of the expiry loop: an unexpired skb goes back to the head and
\* the loop breaks, an expired one is freed
expire_check ==
    /\ aux.pc = "expire_chk"
    /\ IF ~time_after(jiffies, skbs[aux.held].timeout)
       THEN /\ tx_skb_queue' = <<aux.held>> \o tx_skb_queue
            /\ aux' = [aux EXCEPT !.pc = "loop", !.held = NoSkb]
            /\ UNCHANGED skbs
       ELSE /\ skbs' = kfree_skb(skbs, aux.held, "timeout")
            /\ aux' = [aux EXCEPT !.pc = "expire", !.held = NoSkb]
            /\ UNCHANGED tx_skb_queue
    /\ tx_args' = NoTxArgs
    /\ UNCHANGED <<hwts_tx_en, jiffies, ticks, dep_ts, mcdmavars, drvvars>>

InitPtp ==
    /\ head = NULL
    /\ next = [m \in MACS |-> NULL]
    /\ state = [m \in MACS |-> ST_UNLOADED]
    /\ axienet_local_count = 0
    /\ granted = {}
    /\ reg_order = <<>>
    /\ last = [op |-> "none", lp |-> NULL, arg |-> "none", ret |-> 0,
               sched |-> <<>>,
               pre |-> [head |-> NULL, next |-> [m \in MACS |-> NULL],
                        state |-> [m \in MACS |-> ST_UNLOADED], count |-> 0]]
    /\ list_lock = NULL
    /\ thr = [c \in Contexts |-> IdleThr]
    /\ dma_err_tasklet = NoTasklets
    /\ cs_snap = Registry
    /\ obs = NoObs
    /\ \E tx_en \in TxTypes : PtpProbed(tx_en)

\* what ptp_parse_header may return for an skb
Headers ==
    {[found |-> FALSE, msgtype |-> 0, sequence_id |-> <<0, 0>>]} \cup
    [found : {TRUE}, msgtype : MsgTypes,
     sequence_id : {<<0, lo>> : lo \in SeqIds}]

\* the timer interrupts seen: one that lands on a timeout and one past it
TickSizes == {SKB_TS_TIMEOUT, SKB_TS_TIMEOUT + 1}

NextPtp ==
    \/ \E hdr \in Headers : mv3540_txtstamp(hdr)
    \/ \E d \in TickSizes : timer_tick(d)
    \/ \E s \in SeqIds : phy_departure(s)
    \/ do_aux_work_start
    \/ do_aux_work_loop
    \/ mv3540_read_departure_ts
    \/ mv3540_ptp_match_tstamp
    \/ expire_dequeue
    \/ expire_check

SpecPtp == InitPtp /\ [][NextPtp]_vars

\* ---- claims about the timestamper

QueueingModes ==
    {HWTSTAMP_TX_ON, HWTSTAMP_TX_ONESTEP_SYNC, HWTSTAMP_TX_ONESTEP_P2P}

\* the step is a call of mv3540_txtstamp
IsTxtstamp == tx_args'.called

\* the step is the walk and delivery of mv3540_ptp_match_tstamp
IsMatch == aux.pc = "match" /\ aux'.pc # "match"

\* the step ends one turn of the expiry loop
IsExpireCheck == aux.pc = "expire_chk" /\ aux'.pc # "expire_chk"

\* the skbs that are in the driver's hands
InDriver == Range(tx_skb_queue) \cup (IF aux.held = NoSkb THEN {} ELSE {aux.held})

\* C26: mv3540_txtstamp appends the skb at the tail of the queue, with its
\* sequence id and a timeout of jiffies + 10, and schedules the worker, if
\* and only if the header parses and the tx mode is ON, ONESTEP_SYNC or
\* ONESTEP_P2P; otherwise the skb is freed and the queue is unchanged.
C26_TxtstampQueuesOrFrees ==
    [][IsTxtstamp =>
        LET k == tx_args'.skb
        IN  IF tx_args'.parses /\ hwts_tx_en \in QueueingModes
            THEN /\ tx_skb_queue' = Append(tx_skb_queue, k)
                 /\ skbs'[k].seq_id = tx_args'.seq
                 /\ skbs'[k].timeout = jiffies + 10
                 /\ skbs'[k].freed = 0
                 /\ aux'.pending
            ELSE /\ tx_skb_queue' = tx_skb_queue
                 /\ skbs'[k].freed = 1]_vars

C26_Witness ==
    /\ tx_args.called
    /\ tx_args.parses
    /\ hwts_tx_en = HWTSTAMP_TX_ON
    /\ Len(tx_skb_queue) = 2
    /\ tx_skb_queue[2] = tx_args.skb
    /\ jiffies > 0
    /\ skbs[tx_args.skb].timeout = jiffies + 10
    /\ aux.pending

\* C27: a queued skb is marked discard exactly when the mode is ONESTEP_P2P
\* and the message is Sync or Pdelay_Resp, or the mode is ONESTEP_SYNC and
\* the message is Sync; a marked skb that matches a departure timestamp is
\* freed and not completed, an unmarked one is completed with the timestamp
\* the match was made with.
C27_DiscardMarkedAndHonoured ==
    /\ [][(IsTxtstamp /\ tx_args'.skb \in Range(tx_skb_queue')) =>
            (skbs'[tx_args'.skb].discard <=>
                \/ /\ hwts_tx_en = HWTSTAMP_TX_ONESTEP_P2P
                   /\ tx_args'.msgtype \in {PTP_MSGTYPE_SYNC,
                                            PTP_MSGTYPE_PDELAY_RESP}
                \/ /\ hwts_tx_en = HWTSTAMP_TX_ONESTEP_SYNC
                   /\ tx_args'.msgtype = PTP_MSGTYPE_SYNC)]_vars
    /\ [][IsMatch =>
            \A k \in Range(tx_skb_queue) \ Range(tx_skb_queue') :
                IF skbs[k].discard
                THEN skbs'[k].freed = 1 /\ skbs'[k].completed = 0
                ELSE /\ skbs'[k].completed = 1
                     /\ skbs'[k].freed = 0
                     /\ skbs'[k].hwtstamp = aux.hwtstamp]_vars

C27_Witness ==
    /\ hwts_tx_en = HWTSTAMP_TX_ONESTEP_P2P
    /\ \E a, b \in Skbs :
          /\ skbs[a].by = "discard" /\ skbs[a].freed = 1
          /\ skbs[b].by = "match" /\ skbs[b].completed = 1
          /\ skbs[b].hwtstamp = 2

\* C28: a match removes the skb nearest the queue head whose seq_id is the
\* timestamp's and keeps the others in order; every skb that was queued is
\* either still in the driver's hands and neither completed nor freed, or
\* was completed or freed exactly once.
C28_FirstMatchAndSingleHandOff ==
    /\ [][(IsMatch /\ aux.found) =>
            IF \E i \in 1..Len(tx_skb_queue) :
                   skbs[tx_skb_queue[i]].seq_id = aux.seq_id
            THEN \E i \in 1..Len(tx_skb_queue) :
                   /\ skbs[tx_skb_queue[i]].seq_id = aux.seq_id
                   /\ \A j \in 1..(i - 1) :
                         skbs[tx_skb_queue[j]].seq_id # aux.seq_id
                   /\ tx_skb_queue' =
                         [n \in 1..(Len(tx_skb_queue) - 1) |->
                             IF n < i THEN tx_skb_queue[n]
                             ELSE tx_skb_queue[n + 1]]
            ELSE tx_skb_queue' = tx_skb_queue]_vars
    /\ [](\A k \in Skbs :
            /\ skbs[k].sent =>
                  IF k \in InDriver
                  THEN skbs[k].freed + skbs[k].completed = 0
                  ELSE skbs[k].freed + skbs[k].completed = 1
            /\ ~skbs[k].sent => skbs[k].freed + skbs[k].completed = 0)
    /\ [](NoDup(tx_skb_queue) /\ aux.held \notin Range(tx_skb_queue))

C28_Witness ==
    /\ tx_skb_queue = <<1, 3>>
    /\ skbs[1].seq_id = 1
    /\ skbs[3].seq_id = 2
    /\ skbs[2].by = "match"
    /\ skbs[2].completed = 1
    /\ aux.seq_id = 2
    /\ aux.pc = "expire"

\* C29: a departure timestamp completes at most one skb: no two skbs are
\* completed with the same timestamp.
C29_OneSkbPerTimestamp ==
    \A a, b \in Skbs :
        (a # b /\ skbs[a].completed > 0 /\ skbs[b].completed > 0) =>
            skbs[a].hwtstamp # skbs[b].hwtstamp

\* C30: the expiry loop frees only the skb it took from the queue head and
\* only when jiffies are strictly after its timeout; an unexpired skb goes
\* back to the head of the queue and the loop ends; the loop is not entered
\* after a match on the queue head.
C30_ExpiryFromHeadOnly ==
    /\ [][(aux.pc = "expire" /\ aux'.pc = "expire_chk") =>
            /\ aux'.held = Head(tx_skb_queue)
            /\ tx_skb_queue' = Tail(tx_skb_queue)
            /\ skbs' = skbs]_vars
    /\ [][IsExpireCheck =>
            IF jiffies > skbs[aux.held].timeout
            THEN /\ skbs'[aux.held].freed = 1
                 /\ skbs'[aux.held].by = "timeout"
                 /\ tx_skb_queue' = tx_skb_queue
                 /\ aux'.pc = "expire"
            ELSE /\ skbs' = skbs
                 /\ tx_skb_queue' = <<aux.held>> \o tx_skb_queue
                 /\ aux'.pc = "loop"]_vars
    /\ [][\A k \in Skbs :
            (skbs[k].by # "timeout" /\ skbs'[k].by = "timeout") =>
                IsExpireCheck /\ k = aux.held]_vars
    /\ [][(IsMatch /\ MatchPos = 1) => aux'.pc # "expire"]_vars

C30_Witness ==
    /\ aux.pc = "loop"
    /\ aux.reschedule
    /\ jiffies = SKB_TS_TIMEOUT + 1
    /\ skbs[1].by = "timeout"
    /\ tx_skb_queue = <<2, 3>>
    /\ skbs[2].timeout = jiffies + SKB_TS_TIMEOUT

\* ---- the timestamper with a worker that runs and a clock that advances

\* the skbs of the driver whose timeout has not passed
Unexpired == {k \in InDriver : ~time_after(jiffies, skbs[k].timeout)}

\* the timer interrupt while an skb waits for its timeout; jiffies that pass
\* while nothing waits change no timeout that is compared later
timer_tick_waiting(d) ==
    /\ Unexpired # {}
    /\ jiffies' = jiffies + d
    /\ tx_args' = NoTxArgs
    /\ UNCHANGED <<tx_skb_queue, skbs, hwts_tx_en, ticks, dep_ts, aux,
                   mcdmavars, drvvars>>

\* one pass of the ptp kworker: mv3540_do_aux_work from entry to return
aux_worker ==
    \/ do_aux_work_start
    \/ do_aux_work_loop
    \/ mv3540_read_departure_ts
    \/ mv3540_ptp_match_tstamp
    \/ expire_dequeue
    \/ expire_check

\* the frames sent: a Sync, which one-step modes mark discard, and a
\* Delay_Req, which no mode marks
LiveHeaders ==
    {h \in Headers :
        h.found /\ h.msgtype \in {PTP_MSGTYPE_SYNC, PTP_MSGTYPE_DELAY_REQ}}

\* a timer interrupt that carries jiffies past a fresh timeout
LiveTick == SKB_TS_TIMEOUT + 1

NextPtpLive ==
    \/ \E hdr \in LiveHeaders : mv3540_txtstamp(hdr)
    \/ timer_tick_waiting(LiveTick)
    \/ \E s \in SeqIds : dep_ts.n < MaxLiveCaptures /\ phy_departure(s)
    \/ do_aux_work_start
    \/ do_aux_work_loop
    \/ mv3540_read_departure_ts
    \/ mv3540_ptp_match_tstamp
    \/ expire_dequeue
    \/ expire_check

\* the kworker runs a scheduled work item, and the timer interrupt arrives
FairPtp ==
    /\ WF_vars(aux_worker)
    /\ WF_vars(timer_tick_waiting(LiveTick))

SpecPtpLive == InitPtp /\ [][NextPtpLive]_vars /\ FairPtp

\* C31: mv3540_do_aux_work returns a negative value only when it saw the
\* queue empty, and every queued skb eventually leaves the driver, completed
\* or freed, whether or not the hardware produces a matching timestamp.
C31_WorkerDrainsQueue ==
    /\ [][(aux.pc = "loop" /\ aux'.pc = "idle" /\ ~aux.reschedule) =>
            tx_skb_queue = <<>>]_vars
    /\ \A k \in Skbs :
          (k \in Range(tx_skb_queue)) ~>
              (k \notin InDriver /\ skbs[k].freed + skbs[k].completed = 1)

C31_Witness ==
    /\ dep_ts.n = 0
    /\ \A k \in Skbs : skbs[k].by = "timeout"
    /\ tx_skb_queue = <<>>
    /\ aux.pc = "idle"
    /\ ~aux.pending

\* ---- the timestamping configuration: mv3540_hwtstamp

\* a tx_type outside enum hwtstamp_tx_types
HWTSTAMP_TX_UNKNOWN == "HWTSTAMP_TX_UNKNOWN"

\* the rx filters asked for: none, one of each group the switch accepts, and
\* one it does not
HWTSTAMP_FILTER_NONE == "HWTSTAMP_FILTER_NONE"
RxFilters ==
    {HWTSTAMP_FILTER_NONE, "HWTSTAMP_FILTER_PTP_V1_L4_SYNC",
     "HWTSTAMP_FILTER_PTP_V2_L4_EVENT", "HWTSTAMP_FILTER_PTP_V2_L2_DELAY_REQ",
     "HWTSTAMP_FILTER_ALL", "HWTSTAMP_FILTER_NTP_ALL"}

\* struct hwtstamp_config as copied from user space: every tx_type with
\* every rx filter, and one request with a flag set
HwtstampConfigs ==
    [flags : {0}, tx_type : TxTypes \cup {HWTSTAMP_TX_UNKNOWN},
     rx_filter : RxFilters]
    \cup {[flags |-> 1, tx_type |-> HWTSTAMP_TX_ON,
           rx_filter |-> "HWTSTAMP_FILTER_ALL"]}

\* the places where the environment can make a call fail: the two user
\* copies, a busy config register that makes mv3540_config_lock time out,
\* and the MDIO accesses
FailPoints ==
    {"copy_from_user", "get_lock", "get_write", "get_read", "set_lock",
     "set_write", "rx_filter", "transspec", "start_stop", "copy_to_user"}

\* the failures injected into one call
Faults == {F \in SUBSET FailPoints : Cardinality(F) <= MaxFaults}

\* the errno a failing MDIO access returns
EIO == 5

\* the PTP mode byte of the PHY at probe: other bits clear or set
ModeBytes == {0, 161}

\* what an uninitialised u8 on the stack may hold
StackBytes == {0, 255}

\* the stack contents that make calls with failures F differ: data of
\* mv3540_enable_one_step is used unwritten only after a failed MDIO write
Uninit(F) == IF "get_write" \in F THEN StackBytes ELSE {0}

\* data |= 0x0004
or_0x0004(data) == IF (data \div 4) % 2 = 1 THEN data ELSE data + 4

\* data &= ~0x0004
and_not_0x0004(data) == IF (data \div 4) % 2 = 1 THEN data - 4 ELSE data

\* mv3540_config_lock on PHY state t: the read-plus window is opened and the
\* WR bit polled; on timeout the window is closed again
mv3540_config_lock(t, busy) ==
    IF busy
    THEN [ret |-> "-ETIMEDOUT",
          t |-> [t EXCEPT !.rdplus_ena = FALSE, !.writes = @ + 2]]
    ELSE [ret |-> "0",
          t |-> [t EXCEPT !.rdplus_ena = TRUE, !.writes = @ + 1]]

\* mv3540_config_unlock
mv3540_config_unlock(t) ==
    [t EXCEPT !.rdplus_ena = FALSE, !.writes = @ + 1]

\* mv3540_get_config for the mode index; data is what *data holds on return,
\* uninit what it held before the call
mv3540_get_config(F, t, uninit) ==
    LET l == mv3540_config_lock(t, "get_lock" \in F)
    IN  IF "get_lock" \in F
        THEN [ret |-> l.ret, data |-> uninit, read |-> FALSE, t |-> l.t]
        ELSE [ret |-> "0",
              data |-> IF "get_write" \in F THEN uninit
                       ELSE IF "get_read" \in F THEN (0 - EIO) % 256
                       ELSE t.mode,
              read |-> F \cap {"get_write", "get_read"} = {},
              t |-> mv3540_config_unlock([l.t EXCEPT !.writes = @ + 1])]

\* mv3540_set_config for the mode index
mv3540_set_config(F, t, data) ==
    LET l == mv3540_config_lock(t, "set_lock" \in F)
    IN  IF "set_lock" \in F
        THEN [ret |-> l.ret, wrote |-> FALSE, t |-> l.t]
        ELSE IF "set_write" \in F
        THEN [ret |-> "-EIO", wrote |-> FALSE,
              t |-> mv3540_config_unlock([l.t EXCEPT !.writes = @ + 1])]
        ELSE [ret |-> "0", wrote |-> TRUE,
              t |-> mv3540_config_unlock([l.t EXCEPT !.writes = @ + 1,
                                                     !.mode = data])]

\* mv3540_enable_one_step; the result also tells what get and set did
mv3540_enable_one_step(F, t, uninit, one_step) ==
    LET g == mv3540_get_config(F, t, uninit)
        data == IF one_step THEN or_0x0004(g.data) ELSE and_not_0x0004(g.data)
        st == mv3540_set_config(F, g.t, data)
    IN  IF "get_lock" \in F
        THEN [ret |-> g.ret, t |-> g.t, get_ret |-> g.ret, read |-> FALSE,
              set_called |-> FALSE, wrote |-> FALSE, written |-> 0]
        ELSE [ret |-> st.ret, t |-> st.t, get_ret |-> "0",
              read |-> g.read, set_called |-> TRUE, wrote |-> st.wrote,
              written |-> data]

\* the switch on cfg.rx_filter: the fields it assigns, or none for a filter
\* it does not know
rx_filter_switch(rx_filter) ==
    CASE rx_filter = HWTSTAMP_FILTER_NONE ->
           [known |-> TRUE, hwts_rx_en |-> 0, ptp_transport |-> {},
            ptp_version |-> "0"]
      [] rx_filter = "HWTSTAMP_FILTER_PTP_V1_L4_SYNC" ->
           [known |-> TRUE, hwts_rx_en |-> 1,
            ptp_transport |-> {"PTP_CLASS_L4"},
            ptp_version |-> "PTP_CLASS_V1"]
      [] rx_filter = "HWTSTAMP_FILTER_PTP_V2_L4_EVENT" ->
           [known |-> TRUE, hwts_rx_en |-> 1,
            ptp_transport |-> {"PTP_CLASS_L4"},
            ptp_version |-> "PTP_CLASS_V2"]
      [] rx_filter = "HWTSTAMP_FILTER_PTP_V2_L2_DELAY_REQ" ->
           [known |-> TRUE, hwts_rx_en |-> 1,
            ptp_transport |-> {"PTP_CLASS_L2"},
            ptp_version |-> "PTP_CLASS_V2"]
      [] rx_filter = "HWTSTAMP_FILTER_ALL" ->
           [known |-> TRUE, hwts_rx_en |-> 1,
            ptp_transport |-> {"PTP_CLASS_L4", "PTP_CLASS_L2"},
            ptp_version |-> "PTP_CLASS_V2"]
      [] OTHER ->
           [known |-> FALSE, hwts_rx_en |-> 0, ptp_transport |-> {},
            ptp_version |-> "0"]

\* the stored timestamping configuration
StoredConfig ==
    [hwts_tx_en |-> hwts_tx_en, hwts_rx_en |-> priv.hwts_rx_en,
     ptp_transport |-> priv.ptp_transport, ptp_version |-> priv.ptp_version]

\* mutant: the tx mode is stored before tx_type is validated
hwtstamp_tx_stored_early(cfg, stored, reached) ==
    IF cfg.flags = 0 THEN cfg.tx_type ELSE stored

\* priv->hwts_tx_en after the call: assigned once the rx filter register
\* has been written
hwtstamp_tx_stored(cfg, stored, reached) ==
    IF reached THEN cfg.tx_type ELSE stored

\* mv3540_hwtstamp(cfg) with the failures F injected
mv3540_hwtstamp(cfg, F, uninit) ==
    /\ phy.mii_ts = "priv"
    /\ LET t0 == [mode |-> phy.mode, rdplus_ena |-> phy.rdplus_ena,
                  writes |-> 0]
           one_step == cfg.tx_type \in {HWTSTAMP_TX_ONESTEP_SYNC,
                                        HWTSTAMP_TX_ONESTEP_P2P}
           valid == /\ "copy_from_user" \notin F
                    /\ cfg.flags = 0
                    /\ cfg.tx_type \in TxTypes
       IN
       \E os \in {mv3540_enable_one_step(F, t0, uninit, one_step)} :
       LET t1 == [os.t EXCEPT !.writes = @ + 1]
           rx == rx_filter_switch(cfg.rx_filter)
           stored == valid /\ os.ret = "0" /\ "rx_filter" \notin F
           t2 == [t1 EXCEPT !.writes = @ + 1]
           t3 == [t2 EXCEPT !.writes = @ + 1]
           ret == IF "copy_from_user" \in F THEN "-EFAULT"
                  ELSE IF cfg.flags # 0 THEN "-EINVAL"
                  ELSE IF cfg.tx_type \notin TxTypes THEN "-ERANGE"
                  ELSE IF os.ret # "0" THEN "-EFAULT"
                  ELSE IF "rx_filter" \in F THEN "-EFAULT"
                  ELSE IF ~rx.known THEN "-ERANGE"
                  ELSE IF "transspec" \in F THEN "-EFAULT"
                  ELSE IF "start_stop" \in F THEN "-EFAULT"
                  ELSE IF "copy_to_user" \in F THEN "-EFAULT"
                  ELSE "0"
           t == IF ~valid THEN t0
                ELSE IF os.ret # "0" THEN os.t
                ELSE IF "rx_filter" \in F \/ ~rx.known THEN t1
                ELSE IF "transspec" \in F THEN t2
                ELSE t3
       IN  /\ hwts_tx_en' = hwtstamp_tx_stored(cfg, hwts_tx_en, stored)
           /\ priv' = IF stored /\ rx.known
                      THEN [priv EXCEPT
                               !.hwts_rx_en = rx.hwts_rx_en,
                               !.ptp_transport = rx.ptp_transport,
                               !.ptp_version = rx.ptp_version]
                      ELSE priv
           /\ phy' = [phy EXCEPT !.mode = t.mode,
                                 !.rdplus_ena = t.rdplus_ena]
           /\ call' = [op |-> "hwtstamp", ret |-> ret, flags |-> cfg.flags,
                       tx_type |-> cfg.tx_type, faults |-> F,
                       writes |-> t.writes, one_step |-> one_step,
                       os |-> IF valid
                              THEN [called |-> TRUE, get_ret |-> os.get_ret,
                                    read |-> os.read,
                                    set_called |-> os.set_called,
                                    wrote |-> os.wrote,
                                    written |-> os.written]
                              ELSE [called |-> FALSE, get_ret |-> "0",
                                    read |-> FALSE, set_called |-> FALSE,
                                    wrote |-> FALSE, written |-> 0]]
    /\ UNCHANGED <<tx_skb_queue, skbs, jiffies, ticks, dep_ts, aux, tx_args,
                   ptp_clocks, of_dev, mcdmavars>>

\* ---- probe and remove

\* the places where mv3540_ptp_probe can fail: ptp_clock_register, and the
\* PHY accesses of mv3540_disable_ptp
ProbeFailPoints ==
    {"ptp_clock_register", "bypass", "c04a", "pmd_swrst", "pmd_poll",
     "ptp_reset", "onestep_input"}

ProbeFaults == {F \in SUBSET ProbeFailPoints : Cardinality(F) <= MaxFaults}

\* mv3540_disable_ptp: the first failing access is returned, except that of
\* mv3540_ptp_reset, whose result is overwritten
mv3540_disable_ptp(F) ==
    IF "bypass" \in F THEN "-EIO"
    ELSE IF "c04a" \in F THEN "-EIO"
    ELSE IF "pmd_swrst" \in F THEN "-EIO"
    ELSE IF "pmd_poll" \in F THEN "-ETIMEDOUT"
    ELSE IF "onestep_input" \in F THEN "-EIO"
    ELSE "0"

\* mv3540_ptp_probe with the failures F injected
mv3540_ptp_probe(F) ==
    /\ priv.ptp_clock = "NULL"
    /\ phy.mii_ts = "NULL"
    /\ ptp_clocks.unregistered = 0
    /\ IF "ptp_clock_register" \in F
       THEN /\ priv' = [priv EXCEPT !.ptp_clock = "ERR_PTR"]
            /\ call' = [op |-> "probe", ret |-> "-ENOMEM", faults |-> F,
                        registered |-> FALSE]
            /\ UNCHANGED <<phy, ptp_clocks, tx_skb_queue>>
       ELSE /\ priv' = [priv EXCEPT !.ptp_clock = "clock"]
            /\ ptp_clocks' = [ptp_clocks EXCEPT !.registered = @ + 1]
            /\ phy' = [phy EXCEPT !.mii_ts = "priv"]
            /\ tx_skb_queue' = <<>>
            /\ call' = [op |-> "probe", ret |-> mv3540_disable_ptp(F),
                        faults |-> F, registered |-> TRUE]
    /\ UNCHANGED <<skbs, hwts_tx_en, jiffies, ticks, dep_ts, aux, tx_args,
                   of_dev, mcdmavars>>

\* mv3540_ptp_remove, called for a PHY whose probe set up the timestamper;
\* it returns nothing, the result of mv3540_disable_ptp is dropped
mv3540_ptp_remove ==
    /\ phy.mii_ts = "priv"
    /\ IF priv.ptp_clock # "NULL"
       THEN /\ ptp_clocks' = [registered |-> ptp_clocks.registered - 1,
                              unregistered |-> ptp_clocks.unregistered + 1]
            /\ priv' = [priv EXCEPT !.ptp_clock = "NULL"]
       ELSE UNCHANGED <<ptp_clocks, priv>>
    /\ call' = [op |-> "remove", ret |-> "0", faults |-> {},
                registered |-> FALSE]
    /\ UNCHANGED <<tx_skb_queue, skbs, hwts_tx_en, jiffies, ticks, dep_ts,
                   aux, tx_args, phy, of_dev, mcdmavars>>

InitDrv ==
    /\ head = NULL
    /\ next = [m \in MACS |-> NULL]
    /\ state = [m \in MACS |-> ST_UNLOADED]
    /\ axienet_local_count = 0
    /\ granted = {}
    /\ reg_order = <<>>
    /\ last = [op |-> "none", lp |-> NULL, arg |-> "none", ret |-> 0,
               sched |-> <<>>,
               pre |-> [head |-> NULL, next |-> [m \in MACS |-> NULL],
                        state |-> [m \in MACS |-> ST_UNLOADED], count |-> 0]]
    /\ list_lock = NULL
    /\ thr = [c \in Contexts |-> IdleThr]
    /\ dma_err_tasklet = NoTasklets
    /\ cs_snap = Registry
    /\ obs = NoObs
    /\ TimestamperIdle(HWTSTAMP_TX_OFF)
    /\ \E mode \in ModeBytes : DrvUnprobed(mode)

NextDrv ==
    \/ \E F \in ProbeFaults : mv3540_ptp_probe(F)
    \/ \E F \in Faults : \E uninit \in Uninit(F), cfg \in HwtstampConfigs :
          mv3540_hwtstamp(cfg, F, uninit)
    \/ mv3540_ptp_remove

SpecDrv == InitDrv /\ [][NextDrv]_vars

\* the step is a call of op that returns an error
Failed(op) == call'.op = op /\ call'.ret # "0"

\* C32: mv3540_hwtstamp returns -EINVAL for non-zero flags and -ERANGE for a
\* tx_type that is none of OFF, ON, ONESTEP_SYNC, ONESTEP_P2P, and then it
\* has written no PHY register and the stored configuration is unchanged.
C32_BadRequestRejectedEarly ==
    [][(call'.op = "hwtstamp" /\ "copy_from_user" \notin call'.faults) =>
        /\ call'.flags # 0 => call'.ret = "-EINVAL"
        /\ (call'.flags = 0 /\ call'.tx_type \notin
               {HWTSTAMP_TX_OFF, HWTSTAMP_TX_ON, HWTSTAMP_TX_ONESTEP_SYNC,
                HWTSTAMP_TX_ONESTEP_P2P}) => call'.ret = "-ERANGE"
        /\ (call'.flags # 0 \/ call'.tx_type = HWTSTAMP_TX_UNKNOWN) =>
              /\ call'.writes = 0
              /\ StoredConfig' = StoredConfig
              /\ phy' = phy]_vars

C32_Witness ==
    /\ call.op = "hwtstamp"
    /\ call.flags = 0
    /\ call.tx_type = HWTSTAMP_TX_UNKNOWN
    /\ call.ret = "-ERANGE"
    /\ call.writes = 0
    /\ hwts_tx_en = HWTSTAMP_TX_ONESTEP_P2P
    /\ priv.hwts_rx_en = 1

\* C33: whenever mv3540_hwtstamp returns an error, the stored configuration
\* (hwts_tx_en, hwts_rx_en, ptp_transport, ptp_version) is what it was
\* before the call.
C33_ErrorKeepsStoredConfig ==
    [][Failed("hwtstamp") => StoredConfig' = StoredConfig]_vars

\* C34: mv3540_get_config returns non-zero whenever the lock times out or
\* its MDIO write or read fails; mv3540_enable_one_step writes a mode byte
\* back only when it was read, changing bit 2 alone; the config lock is
\* released on every path.
C34_ModeByteReadModifyWrite ==
    /\ [](~phy.rdplus_ena)
    /\ [][(call'.op = "hwtstamp" /\ call'.os.called) =>
          /\ (call'.faults \cap {"get_lock", "get_write", "get_read"} # {}) =>
                call'.os.get_ret # "0"
          /\ call'.os.set_called =>
                /\ call'.os.read
                /\ call'.os.written =
                      IF call'.one_step
                      THEN phy.mode + 4 * (1 - ((phy.mode \div 4) % 2))
                      ELSE phy.mode - 4 * ((phy.mode \div 4) % 2)]_vars

\* C35: after a failed mv3540_ptp_probe no clock registered by it remains
\* and phydev->mii_ts does not point at the private timestamper; after
\* mv3540_ptp_remove the clock has been unregistered exactly once.
C35_ProbeFailureLeavesNothing ==
    /\ (call.op = "probe" /\ call.ret # "0") =>
          /\ ptp_clocks.registered = 0
          /\ phy.mii_ts # "priv"
    /\ call.op = "remove" =>
          /\ ptp_clocks.unregistered = 1
          /\ ptp_clocks.registered = 0

\* ---- the OF reconfiguration notifier: of_phy_notify

OF_RECONFIG_CHANGE_ADD == "OF_RECONFIG_CHANGE_ADD"
OF_RECONFIG_CHANGE_REMOVE == "OF_RECONFIG_CHANGE_REMOVE"
OF_RECONFIG_NO_CHANGE == "OF_RECONFIG_NO_CHANGE"
OfChanges ==
    {OF_RECONFIG_CHANGE_ADD, OF_RECONFIG_CHANGE_REMOVE, OF_RECONFIG_NO_CHANGE}

\* what the helpers called by the notifier answer: whether the node is a
\* PHY, whether its parent is a registered MDIO bus, whether it has a reg
\* property, the result of of_mdiobus_register_phy, whether the PHY found
\* has a bus and whether that bus is the node's parent
OfAnswers ==
    [child_is_phy : BOOLEAN, bus_found : BOOLEAN, addr_ok : BOOLEAN,
     rc : {"0", "-ENODEV", "-EINVAL"}, has_bus : BOOLEAN,
     parent_match : BOOLEAN]

\* a reference is taken on device d by a find function
get_device(o, d) == [o EXCEPT !.refs[d] = @ + 1, !.gets = @ + 1]

\* mutant: the reference is not given back
put_device_forgotten(o, d) == o

\* put_device(&d->dev)
put_device(o, d) == [o EXCEPT !.refs[d] = @ - 1, !.puts = @ + 1]

\* case OF_RECONFIG_CHANGE_ADD for node n; o carries the notifier's view of
\* the devices and the references taken and given back so far
of_phy_notify_add(o, n, a) ==
    IF ~a.child_is_phy THEN o
    ELSE IF ~a.bus_found THEN o
    ELSE LET m == get_device(o, "mdio")
             r == [m EXCEPT !.registered[n] = @ \/ a.rc = "0"]
         IN  IF ~a.addr_ok THEN put_device(m, "mdio")
             ELSE IF a.rc = "-ENODEV" THEN put_device(r, "mdio")
             ELSE IF r.populated[n] THEN put_device(r, "mdio")
             ELSE [put_device(r, "mdio") EXCEPT !.populated[n] = TRUE,
                                                !.ret = "NOTIFY_OK"]

\* case OF_RECONFIG_CHANGE_REMOVE for node n
of_phy_notify_remove(o, n, a) ==
    IF ~o.populated[n] THEN o
    ELSE IF ~a.child_is_phy THEN o
    ELSE IF ~o.registered[n] THEN o
    ELSE LET p == get_device(o, n)
         IN  IF ~a.has_bus THEN put_device(p, n)
             ELSE IF ~a.parent_match THEN put_device(p, n)
             ELSE [put_device(p, n) EXCEPT !.registered[n] = FALSE,
                                           !.ret = "NOTIFY_OK"]

\* of_phy_notify(nb, action, rd) for a change of kind change to node n
of_phy_notify(change, n, a) ==
    LET o == [populated |-> of_dev.populated,
              registered |-> of_dev.registered, refs |-> of_dev.refs,
              gets |-> 0, puts |-> 0, ret |-> "NOTIFY_DONE"]
    IN  \E r \in {CASE change = OF_RECONFIG_CHANGE_ADD ->
                         of_phy_notify_add(o, n, a)
                    [] change = OF_RECONFIG_CHANGE_REMOVE ->
                         of_phy_notify_remove(o, n, a)
                    [] OTHER -> o} :
          /\ of_dev' = [populated |-> r.populated,
                        registered |-> r.registered, refs |-> r.refs]
          /\ call' = [op |-> "of_phy_notify", ret |-> r.ret,
                      change |-> change, node |-> n, gets |-> r.gets,
                      puts |-> r.puts, rc |-> a.rc]
          /\ UNCHANGED <<ptpvars, priv, phy, ptp_clocks, mcdmavars>>

NextOf ==
    \E change \in OfChanges, n \in OfNodes, a \in OfAnswers :
        of_phy_notify(change, n, a)

SpecOf == InitDrv /\ [][NextOf]_vars

\* C36: on every path through of_phy_notify each reference it takes (the
\* MDIO bus on ADD, the PHY device on REMOVE) is given back by exactly one
\* put_device before it returns, and nothing is put when nothing was taken.
C36_ReferencesBalanced ==
    /\ \A d \in OfDevices : of_dev.refs[d] = 0
    /\ call.op = "of_phy_notify" =>
          /\ call.puts = call.gets
          /\ call.gets <= 1

C36_Witness ==
    /\ call.op = "of_phy_notify"
    /\ call.change = OF_RECONFIG_CHANGE_ADD
    /\ call.rc = "-ENODEV"
    /\ call.gets = 1
    /\ call.puts = 1
    /\ call.ret = "NOTIFY_DONE"
    /\ of_dev.populated[call.node]

====
